---- MODULE Spec2Model ----
(***************************************************************************)
(* Orchestration core of the "Salah Travel & Study" multi-agent system:    *)
(* the root router, its three utility agents, the sequential scholarship   *)
(* pipeline, the three callbacks, and the data tools.                      *)
(*                                                                         *)
(* A turn is one run of root_agent: before_agent_callback, then the root   *)
(* model call that applies the routing rules of its instruction, then the  *)
(* run of the chosen sub-agent.  An agent that declares a tool makes a     *)
(* model call, the tool call, and a final model call; an agent without a   *)
(* tool makes one final model call.  A callback fires for an agent only    *)
(* where that agent's constructor registers it.                            *)
(***************************************************************************)
EXTENDS Integers, Sequences, FiniteSets, TLC

\* Turns dispatched in one session.
MaxTurns == 2

(***************************************************************************)
(* Values of the session state                                             *)
(***************************************************************************)
Absent == [t |-> "absent"]
IntV(n) == [t |-> "int", v |-> n]
StrV(s) == [t |-> "str", v |-> s]
BoolV(b) == [t |-> "bool", v |-> b]
\* A list written by a pipeline stage; `by` is the turn that wrote it and
\* `marker` says whether a failure marker was written with it.
ListV(items, by, marker) == [t |-> "list", v |-> items, by |-> by, marker |-> marker]

K_COUNT == "user:agent_call_count"
K_AGENT == "temp:current_agent"
K_SKIP == "skip_processing"
K_RESULTS == "scholarship_results"
K_RANKED == "ranked_scholarships"
Keys == {K_COUNT, K_AGENT, K_SKIP, K_RESULTS, K_RANKED}

\* ScopeOf with the current-agent key written without its "temp:" prefix.
ScopeOf_no_temp(key) ==
    CASE key = K_COUNT -> "user"
      [] OTHER -> "session"

\* The lifetime a key's prefix gives it: "user:" and unprefixed keys stay in
\* the session, "temp:" keys live for one run of the root agent.
ScopeOf(key) ==
    CASE key = K_COUNT -> "user"
      [] key = K_AGENT -> "temp"
      [] OTHER -> "session"

\* The session state as it is kept when a run of the root agent ends.
EndOfInvocation(st) ==
    [k \in Keys |-> IF ScopeOf(k) = "temp" THEN Absent ELSE st[k]]

\* dict.get(key, default)
Get(st, key, default) == IF st[key].t = "absent" THEN default ELSE st[key]

\* Python truthiness of a stored value
Truthy(val) ==
    CASE val.t = "bool" -> val.v
      [] val.t = "int" -> val.v # 0
      [] val.t = "str" -> val.v # ""
      [] val.t = "list" -> val.v # <<>>
      [] OTHER -> FALSE

(***************************************************************************)
(* Data tools (tools.py) and their stand-ins (agents.py)                   *)
(***************************************************************************)
\* What a tool hands back.  `raised`: an exception left the function.
\* `error`: the value carries an "error" key (the failure shape).
ToolValue(error, reason, items, fields) ==
    [raised |-> FALSE, error |-> error, reason |-> reason, items |-> items,
     fields |-> fields]

NoFields == [temperature |-> 0, condition |-> "", description |-> ""]

\* Outcomes of the HTTP exchange behind each tool.
WeatherOutcomes ==
    {"geo_network_error", "geo_http_error", "geo_malformed", "geo_not_found",
     "wx_network_error", "wx_http_error", "wx_malformed", "wx_no_current", "ok"}
HolidayOutcomes ==
    {"network_error", "http_404", "http_500", "malformed", "ok_empty", "ok"}
ScholarshipOutcomes ==
    {"network_error", "http_error", "malformed", "ok_list", "ok_empty_list",
     "ok_dict", "ok_other"}

\* WMO codes the weather service may send (100 is not in the table).
WeatherCodes == {0, 63, 100}

FallbackTemperature == 20

_get_weather_description(code) ==
    CASE code = 0 -> <<"Clear", "Clear sky">>
      [] code = 63 -> <<"Rain", "Moderate rain">>
      [] OTHER -> <<"Unknown", "Unknown conditions">>

WeatherFallback ==
    ToolValue(FALSE, "", <<>>,
              [temperature |-> FallbackTemperature, condition |-> "Unknown",
               description |-> "Could not fetch weather"])

get_weather(outcome, temp, code) ==
    CASE outcome = "geo_not_found" ->
            ToolValue(TRUE, "City not found", <<>>, NoFields)
      [] outcome = "ok" ->
            ToolValue(FALSE, "", <<>>,
                      [temperature |-> temp,
                       condition |-> _get_weather_description(code)[1],
                       description |-> _get_weather_description(code)[2]])
      [] outcome = "wx_no_current" ->
            ToolValue(FALSE, "", <<>>,
                      [temperature |-> 0,
                       condition |-> _get_weather_description(0)[1],
                       description |-> _get_weather_description(0)[2]])
      [] OTHER -> WeatherFallback

CountryNotFound == "Country code not found. Use ISO 3166-1 alpha-2 codes like: MA, FR, US, DE, GB, JP"

\* get_public_holidays with the HTTP errors other than 404 answered by an
\* empty list.
get_public_holidays_quiet(outcome) ==
    CASE outcome = "ok" -> ToolValue(FALSE, "", <<"holiday1", "holiday2">>, NoFields)
      [] outcome = "ok_empty" -> ToolValue(FALSE, "", <<>>, NoFields)
      [] outcome = "http_404" -> ToolValue(TRUE, CountryNotFound, <<>>, NoFields)
      [] outcome = "http_500" -> ToolValue(FALSE, "", <<>>, NoFields)
      [] OTHER -> ToolValue(TRUE, "Unexpected error", <<>>, NoFields)

\* get_public_holidays without the test of the status code.
get_public_holidays_no_404(outcome) ==
    CASE outcome = "ok" -> ToolValue(FALSE, "", <<"holiday1", "holiday2">>, NoFields)
      [] outcome = "ok_empty" -> ToolValue(FALSE, "", <<>>, NoFields)
      [] outcome \in {"http_404", "http_500"} -> ToolValue(TRUE, "HTTP error", <<>>, NoFields)
      [] OTHER -> ToolValue(TRUE, "Unexpected error", <<>>, NoFields)

get_public_holidays(outcome) ==
    CASE outcome = "ok" -> ToolValue(FALSE, "", <<"holiday1", "holiday2">>, NoFields)
      [] outcome = "ok_empty" -> ToolValue(FALSE, "", <<>>, NoFields)
      [] outcome = "http_404" -> ToolValue(TRUE, CountryNotFound, <<>>, NoFields)
      [] outcome = "http_500" -> ToolValue(TRUE, "HTTP error", <<>>, NoFields)
      [] OTHER -> ToolValue(TRUE, "Unexpected error", <<>>, NoFields)

Sch(name, amount) == [name |-> name, amount |-> amount]

Countries == {"france", "morocco", "spain"}

_get_mock_scholarships(country) ==
    CASE country = "france" ->
            << Sch("Eiffel Excellence Scholarship", "E1,700/month + tuition"),
               Sch("Emile Boutmy Scholarship (Sciences Po)", "E5,000-10,000/year"),
               Sch("ENS Paris-Saclay International Scholarship", "E1,000/month"),
               Sch("HEC Paris MBA Scholarship", "Up to E30,000"),
               Sch("INSEAD Scholarship", "E10,000-50,000") >>
      [] country = "morocco" ->
            << Sch("Fulbright Morocco Scholarship", "Full funding"),
               Sch("Chevening Scholarship", "Full tuition + L1,200/month"),
               Sch("DAAD Germany Scholarship", "E934/month"),
               Sch("Erasmus Mundus", "E25,000/year + tuition"),
               Sch("Turkish Government Scholarship", "Full tuition + stipend") >>
      [] OTHER ->
            << Sch("Erasmus Mundus Joint Masters", "E25,000/year + tuition"),
               Sch("Chevening Scholarship UK", "Full tuition + L1,200/month"),
               Sch("DAAD Scholarship Germany", "E934/month + insurance"),
               Sch("Fulbright Foreign Student Program", "Full funding"),
               Sch("Swiss Government Excellence Scholarship", "CHF 1,920/month") >>

\* Lists the live scholarship service may send.
ApiLists == { << Sch("Api Grant", "3000$") >>,
              << Sch("Api Grant", "3000$"), Sch("Api Fellowship", "9000$") >>,
              << Sch("Api Grant", "3000$"), Sch("Api Award", "3000$"),
                 Sch("Api Fellowship", "9000$"), Sch("Api Prize", "2000$") >> }

\* search_scholarships without the fallback on an exception.
search_scholarships_no_fallback(outcome, data, country) ==
    CASE outcome = "ok_list" -> ToolValue(FALSE, "", data, NoFields)
      [] outcome = "ok_dict" -> ToolValue(FALSE, "", data, NoFields)
      [] outcome \in {"network_error", "http_error", "malformed"} ->
            ToolValue(TRUE, "Search failed", <<>>, NoFields)
      [] OTHER -> ToolValue(FALSE, "", _get_mock_scholarships(country), NoFields)

search_scholarships(outcome, data, country) ==
    CASE outcome = "ok_list" -> ToolValue(FALSE, "", data, NoFields)
      [] outcome = "ok_dict" -> ToolValue(FALSE, "", data, NoFields)
      [] OTHER -> ToolValue(FALSE, "", _get_mock_scholarships(country), NoFields)

\* The stand-ins agents.py registers with the agents.
get_weather_tool ==
    ToolValue(FALSE, "", <<>>,
              [temperature |-> 25, condition |-> "Sunny", description |-> ""])

get_public_holidays_tool ==
    ToolValue(FALSE, "", <<"New Year", "Independence Day">>, NoFields)

search_scholarships_tool ==
    ToolValue(FALSE, "",
              << Sch("Gov Grant A", "5000$"), Sch("Tech Future B", "2000$"),
                 Sch("Research Fell C", "10000$") >>, NoFields)

(***************************************************************************)
(* Callbacks (agents.py, section 2)                                        *)
(***************************************************************************)
\* check_and_log_agent_entry with the skip test moved ahead of the counter
\* update.
check_and_log_agent_entry_skip_first(st, agent_name) ==
    LET current == Get(st, K_COUNT, IntV(0)) IN
    IF Truthy(Get(st, K_SKIP, BoolV(FALSE)))
    THEN [raised |-> FALSE, state |-> st, ret |-> "skipped"]
    ELSE IF current.t # "int"
    THEN [raised |-> TRUE, state |-> st, ret |-> "none"]
    ELSE [raised |-> FALSE,
          state |-> [st EXCEPT ![K_COUNT] = IntV(current.v + 1),
                               ![K_AGENT] = StrV(agent_name)],
          ret |-> "none"]

\* check_and_log_agent_entry without the skip test.
check_and_log_agent_entry_no_skip(st, agent_name) ==
    LET current == Get(st, K_COUNT, IntV(0)) IN
    IF current.t # "int"
    THEN [raised |-> TRUE, state |-> st, ret |-> "none"]
    ELSE [raised |-> FALSE,
          state |-> [st EXCEPT ![K_COUNT] = IntV(current.v + 1),
                               ![K_AGENT] = StrV(agent_name)],
          ret |-> "none"]

\* check_and_log_agent_entry with the update wrapped in a handler that
\* swallows the error.
check_and_log_agent_entry_swallow(st, agent_name) ==
    LET current == Get(st, K_COUNT, IntV(0)) IN
    IF current.t # "int"
    THEN [raised |-> FALSE, state |-> st, ret |-> "none"]
    ELSE [raised |-> FALSE,
          state |-> [st EXCEPT ![K_COUNT] = IntV(current.v + 1),
                               ![K_AGENT] = StrV(agent_name)],
          ret |-> IF Truthy(Get(st, K_SKIP, BoolV(FALSE)))
                  THEN "skipped" ELSE "none"]

\* check_and_log_agent_entry that takes the flag down when it skips.
check_and_log_agent_entry_one_shot(st, agent_name) ==
    LET current == Get(st, K_COUNT, IntV(0)) IN
    IF current.t # "int"
    THEN [raised |-> TRUE, state |-> st, ret |-> "none"]
    ELSE IF Truthy(Get(st, K_SKIP, BoolV(FALSE)))
    THEN [raised |-> FALSE,
          state |-> [st EXCEPT ![K_COUNT] = IntV(current.v + 1),
                               ![K_AGENT] = StrV(agent_name),
                               ![K_SKIP] = BoolV(FALSE)],
          ret |-> "skipped"]
    ELSE [raised |-> FALSE,
          state |-> [st EXCEPT ![K_COUNT] = IntV(current.v + 1),
                               ![K_AGENT] = StrV(agent_name)],
          ret |-> "none"]

\* before_agent_callback.  The counter is read from the snapshot taken on
\* entry; `+ 1` on a value that is not a number raises before any write.
\* ret is "none" (return None) or "skipped" (the synthetic Content).
check_and_log_agent_entry(st, agent_name) ==
    LET current == Get(st, K_COUNT, IntV(0)) IN
    IF current.t # "int"
    THEN [raised |-> TRUE, state |-> st, ret |-> "none"]
    ELSE [raised |-> FALSE,
          state |-> [st EXCEPT ![K_COUNT] = IntV(current.v + 1),
                               ![K_AGENT] = StrV(agent_name)],
          ret |-> IF Truthy(Get(st, K_SKIP, BoolV(FALSE)))
                  THEN "skipped" ELSE "none"]

\* before_model_callback: logs the last user message, returns None.
simple_before_model_modifier(agent_name) ==
    [raised |-> FALSE, ret |-> "none"]

\* after_tool_callback: logs the tool name, returns None.
simple_after_tool_modifier(tool_name, tool_response) ==
    [raised |-> FALSE, ret |-> "none", response |-> tool_response]

(***************************************************************************)
(* Agents (agents.py, sections 4 and 5)                                    *)
(***************************************************************************)
AgentCfg(name, tool, before_agent, before_model, after_tool) ==
    [name |-> name, tool |-> tool, before_agent_callback |-> before_agent,
     before_model_callback |-> before_model, after_tool_callback |-> after_tool]

weather_agent ==
    AgentCfg("weather_agent", "get_weather_tool", FALSE, TRUE, FALSE)
holiday_agent ==
    AgentCfg("holiday_agent", "get_public_holidays_tool", FALSE, FALSE, FALSE)
city_info_agent ==
    AgentCfg("city_info_agent", "none", FALSE, FALSE, FALSE)
scholarship_search_agent ==
    AgentCfg("scholarship_search_agent", "search_scholarships_tool", FALSE, FALSE, TRUE)
scholarship_ranking_agent ==
    AgentCfg("scholarship_ranking_agent", "none", FALSE, FALSE, FALSE)
scholarship_summary_agent ==
    AgentCfg("scholarship_summary_agent", "none", FALSE, FALSE, FALSE)
root_agent ==
    AgentCfg("root_agent", "none", TRUE, FALSE, FALSE)

AllAgents ==
    {weather_agent, holiday_agent, city_info_agent, scholarship_search_agent,
     scholarship_ranking_agent, scholarship_summary_agent, root_agent}

Cfg(name) == CHOOSE a \in AllAgents : a.name = name

\* scholarship_pipeline with the last two sub_agents exchanged.
scholarship_pipeline_summary_early ==
    << "scholarship_search_agent", "scholarship_summary_agent",
       "scholarship_ranking_agent" >>

\* scholarship_pipeline with the first two sub_agents exchanged.
scholarship_pipeline_rank_first ==
    << "scholarship_ranking_agent", "scholarship_search_agent",
       "scholarship_summary_agent" >>

\* SequentialAgent: its sub_agents in the order they run.
scholarship_pipeline ==
    << "scholarship_search_agent", "scholarship_ranking_agent",
       "scholarship_summary_agent" >>

\* Trigger terms a request may contain, by the rule of the root instruction
\* that names them.
Terms == {"scholarship", "weather", "holiday", "city"}
Requests == SUBSET Terms

\* Route with rules 1 and 2 exchanged.
Route_weather_first(request) ==
    IF "weather" \in request THEN "weather_agent"
    ELSE IF "scholarship" \in request THEN "scholarship_pipeline"
    ELSE IF "holiday" \in request THEN "holiday_agent"
    ELSE IF "city" \in request THEN "city_info_agent"
    ELSE "none"

\* Route with rule 5 handing over to city_info_agent.
Route_no_decline(request) ==
    IF "scholarship" \in request THEN "scholarship_pipeline"
    ELSE IF "weather" \in request THEN "weather_agent"
    ELSE IF "holiday" \in request THEN "holiday_agent"
    ELSE "city_info_agent"

\* The routing rules of the root instruction, applied top to bottom; each
\* rule ends in STOP.  "none": rule 5, the root answers itself.
Route(request) ==
    IF "scholarship" \in request THEN "scholarship_pipeline"
    ELSE IF "weather" \in request THEN "weather_agent"
    ELSE IF "holiday" \in request THEN "holiday_agent"
    ELSE IF "city" \in request THEN "city_info_agent"
    ELSE "none"

(***************************************************************************)
(* Ranking, as the ranking agent's instruction states it                   *)
(***************************************************************************)
TopN == 3

\* The magnitude of a free-text amount; -1 when it names no number.
NormalizedAmount(amount) ==
    CASE amount = "5000$" -> 5000
      [] amount = "2000$" -> 2000
      [] amount = "10000$" -> 10000
      [] amount = "3000$" -> 3000
      [] amount = "9000$" -> 9000
      [] amount = "E1,700/month + tuition" -> 1700
      [] amount = "E5,000-10,000/year" -> 5000
      [] amount = "E1,000/month" -> 1000
      [] amount = "Up to E30,000" -> 30000
      [] amount = "E10,000-50,000" -> 10000
      [] amount = "E934/month" -> 934
      [] amount = "E934/month + insurance" -> 934
      [] amount = "E25,000/year + tuition" -> 25000
      [] amount = "CHF 1,920/month" -> 1920
      [] amount = "Full tuition + L1,200/month" -> 1200
      [] OTHER -> -1

\* The instruction says "sort by amount, largest first" and no more: where
\* an amount that names no number goes, and which of two equal amounts
\* comes first, is left to the model call.
Readings == [unparsed : {"last", "first"}, ties : {"keep", "reverse"}]

\* The magnitude the ranking gives an amount under a reading.
Magnitude(amount, reading) ==
    IF NormalizedAmount(amount) = -1 /\ reading.unparsed = "first"
    THEN 1000000
    ELSE NormalizedAmount(amount)

\* Insert x, which came later in the input, into a list sorted by amount,
\* largest first.
RECURSIVE InsertByAmount(_, _, _)
InsertByAmount(x, sorted, reading) ==
    IF sorted = <<>> THEN <<x>>
    ELSE IF \/ Magnitude(x.amount, reading) > Magnitude(Head(sorted).amount, reading)
            \/ /\ reading.ties = "reverse"
               /\ Magnitude(x.amount, reading) = Magnitude(Head(sorted).amount, reading)
         THEN <<x>> \o sorted
         ELSE <<Head(sorted)>> \o InsertByAmount(x, Tail(sorted), reading)

RECURSIVE SortByAmount(_, _)
SortByAmount(items, reading) ==
    IF items = <<>> THEN <<>>
    ELSE InsertByAmount(items[Len(items)],
                        SortByAmount(SubSeq(items, 1, Len(items) - 1), reading),
                        reading)

\* RankTop with the order of the sort turned round.
RankTop_ascending(items, reading) ==
    LET sorted == SortByAmount(items, reading)
        turned == [i \in DOMAIN sorted |-> sorted[Len(sorted) + 1 - i]]
    IN SubSeq(turned, 1, IF Len(turned) < TopN THEN Len(turned) ELSE TopN)

RankTop(items, reading) ==
    LET sorted == SortByAmount(items, reading) IN
    SubSeq(sorted, 1, IF Len(sorted) < TopN THEN Len(sorted) ELSE TopN)

(***************************************************************************)
(* State                                                                   *)
(***************************************************************************)
VARIABLES
    state,      \* the session state: key -> value
    wiring,     \* "standin": the tools as agents.py defines them;
                \* "module": their bodies replaced by the calls of tools.py
    turns,      \* turns dispatched so far
    pc,         \* "idle", "entry", "root", "model", "tool", "final", "done"
    agent,      \* the agent that is running
    stage,      \* position in scholarship_pipeline, 0 outside it
    request,    \* trigger terms of the request of this turn
    target,     \* what the root model call chose
    tool,       \* the tool call of the running agent
    response,   \* what the turn returns to the caller
    trace,      \* the steps of this turn, in order: <<kind, who, n>>
    start       \* the session state the session was created with

vars == <<state, wiring, turns, pc, agent, stage, request, target, tool,
          response, trace, start>>

NoResponse == [kind |-> "none", from |-> ""]
NoValue == ToolValue(FALSE, "", <<>>, NoFields)
NoTool == [name |-> "none", by |-> "", outcome |-> "", failed |-> FALSE,
           country |-> "", result |-> NoValue, hooked |-> FALSE,
           handed |-> NoValue]

Ev(kind, who, n) == <<kind, who, n>>

\* The session state a caller may create the session with: the flag absent,
\* false or true, the counter absent or holding something that is no number.
InitStates ==
    { [k \in Keys |->
          CASE k = K_SKIP -> skip
            [] k = K_COUNT -> count
            [] OTHER -> Absent] :
      skip \in {Absent, BoolV(FALSE), BoolV(TRUE)},
      count \in {Absent, StrV("n/a")} }

Init ==
    /\ state \in InitStates
    /\ start = state
    /\ wiring \in {"standin", "module"}
    /\ turns = 0
    /\ pc = "idle"
    /\ agent = "none"
    /\ stage = 0
    /\ request = {}
    /\ target = "none"
    /\ tool = NoTool
    /\ response = NoResponse
    /\ trace = <<>>

(***************************************************************************)
(* Steps of a turn                                                         *)
(***************************************************************************)
\* What the exchange behind a tool call may turn out to be.
ToolInputs(tool_name) ==
    IF wiring = "standin"
    THEN {[outcome |-> "standin", data |-> <<>>, country |-> "", temp |-> 0, code |-> 0]}
    ELSE CASE tool_name = "get_weather_tool" ->
                { [outcome |-> o, data |-> <<>>, country |-> "", temp |-> t, code |-> c] :
                      o \in WeatherOutcomes \ {"ok"}, t \in {0}, c \in {0} }
                \cup
                { [outcome |-> "ok", data |-> <<>>, country |-> "", temp |-> t, code |-> c] :
                      t \in {10, 25}, c \in WeatherCodes }
           [] tool_name = "get_public_holidays_tool" ->
                { [outcome |-> o, data |-> <<>>, country |-> "", temp |-> 0, code |-> 0] :
                      o \in HolidayOutcomes }
           [] OTHER ->
                { [outcome |-> "ok_list", data |-> d, country |-> "france", temp |-> 0, code |-> 0] :
                      d \in ApiLists }
                \cup
                { [outcome |-> "ok_dict", data |-> d, country |-> "france", temp |-> 0, code |-> 0] :
                      d \in ApiLists \cup {<<>>} }
                \cup
                { [outcome |-> o, data |-> <<>>, country |-> c, temp |-> 0, code |-> 0] :
                      o \in ScholarshipOutcomes \ {"ok_list", "ok_dict"}, c \in Countries }

\* The exchange did not deliver: network error, HTTP error, body that does not
\* parse, or a lookup that found nothing.
FetchFailed(tool_name, outcome) ==
    CASE outcome = "standin" -> FALSE
      [] tool_name = "get_weather_tool" -> outcome \notin {"ok", "wx_no_current"}
      [] tool_name = "get_public_holidays_tool" -> outcome \notin {"ok", "ok_empty"}
      [] OTHER -> outcome \in {"network_error", "http_error", "malformed"}

\* The body the tool of that name runs.
CallTool(tool_name, inp) ==
    CASE tool_name = "get_weather_tool" ->
            IF wiring = "standin" THEN get_weather_tool
            ELSE get_weather(inp.outcome, inp.temp, inp.code)
      [] tool_name = "get_public_holidays_tool" ->
            IF wiring = "standin" THEN get_public_holidays_tool
            ELSE get_public_holidays(inp.outcome)
      [] OTHER ->
            IF wiring = "standin" THEN search_scholarships_tool
            ELSE search_scholarships(inp.outcome, inp.data, inp.country)

\* One call of the generation backend by agent a, with the callback the
\* agent registers before it.
ModelSteps(a) ==
    (IF Cfg(a).before_model_callback /\ simple_before_model_modifier(a).ret = "none"
     THEN <<Ev("before_model", a, 0)>> ELSE <<>>)
    \o <<Ev("generate", a, 0)>>

StartPc(a) == IF Cfg(a).tool = "none" THEN "final" ELSE "model"

\* A request arrives and the runner starts root_agent.
Dispatch(req) ==
    /\ pc = "idle"
    /\ turns < MaxTurns
    /\ turns' = turns + 1
    /\ request' = req
    /\ pc' = "entry"
    /\ agent' = "root_agent"
    /\ UNCHANGED <<state, wiring, stage, target, tool, response, trace, start>>

\* root_agent's before_agent_callback.
Entry ==
    /\ pc = "entry"
    /\ LET r == check_and_log_agent_entry(state, agent) IN
       IF ~root_agent.before_agent_callback
       THEN /\ pc' = "root"
            /\ UNCHANGED <<state, response, trace>>
       ELSE /\ state' = r.state
            /\ trace' = Append(trace, Ev("before_agent", agent, 0))
            /\ IF r.raised
               THEN /\ response' = [kind |-> "failure", from |-> "check_and_log_agent_entry"]
                    /\ pc' = "done"
               ELSE IF r.ret = "skipped"
               THEN /\ response' = [kind |-> "skipped", from |-> agent]
                    /\ pc' = "done"
               ELSE /\ pc' = "root"
                    /\ UNCHANGED response
    /\ UNCHANGED <<wiring, turns, agent, stage, request, target, tool, start>>

\* The root model call: it applies the routing rules, and either hands over
\* to a sub-agent or answers itself.
RootModel ==
    /\ pc = "root"
    /\ target' = Route(request)
    /\ IF target' = "none"
       THEN /\ response' = [kind |-> "decline", from |-> "root_agent"]
            /\ pc' = "done"
            /\ trace' = trace \o ModelSteps("root_agent")
            /\ UNCHANGED <<agent, stage>>
       ELSE /\ stage' = IF target' = "scholarship_pipeline" THEN 1 ELSE 0
            /\ agent' = IF target' = "scholarship_pipeline"
                        THEN scholarship_pipeline[1] ELSE target'
            /\ pc' = StartPc(agent')
            /\ trace' = trace \o ModelSteps("root_agent")
                              \o <<Ev("start", agent', 0)>>
            /\ UNCHANGED response
    /\ UNCHANGED <<state, wiring, turns, request, tool, start>>

\* The model call of an agent that has a tool: it asks for the tool.
ModelCall ==
    /\ pc = "model"
    /\ trace' = trace \o ModelSteps(agent)
    /\ pc' = "tool"
    /\ UNCHANGED <<state, wiring, turns, agent, stage, request, target, tool,
                   response, start>>

\* The tool call, and the after_tool_callback where the agent registers one.
ToolCall ==
    /\ pc = "tool"
    /\ \E inp \in ToolInputs(Cfg(agent).tool) :
       LET name == Cfg(agent).tool
           result == CallTool(name, inp)
           hooked == Cfg(agent).after_tool_callback
           after == simple_after_tool_modifier(name, result)
       IN /\ tool' = [name |-> name, by |-> agent, outcome |-> inp.outcome,
                      failed |-> FetchFailed(name, inp.outcome),
                      country |-> inp.country, result |-> result,
                      hooked |-> hooked,
                      handed |-> IF hooked /\ after.ret # "none"
                                 THEN after.response ELSE result]
          /\ trace' = trace \o <<Ev("tool", name, 0)>>
                            \o (IF hooked THEN <<Ev("after_tool", name, 0)>> ELSE <<>>)
    /\ pc' = "final"
    /\ UNCHANGED <<state, wiring, turns, agent, stage, request, target,
                   response, start>>

\* The running agent is through with `text` after the steps `steps`: the
\* next pipeline stage starts, or the turn returns the text.
Finish(text, steps) ==
    IF stage > 0 /\ stage < Len(scholarship_pipeline)
    THEN /\ stage' = stage + 1
         /\ agent' = scholarship_pipeline[stage + 1]
         /\ pc' = StartPc(agent')
         /\ trace' = trace \o steps \o <<Ev("start", agent', 0)>>
         /\ UNCHANGED response
    ELSE /\ response' = text
         /\ pc' = "done"
         /\ trace' = trace \o steps
         /\ UNCHANGED <<agent, stage>>

\* Final model call of weather_agent, holiday_agent or city_info_agent.
HandlerFinal ==
    /\ pc = "final"
    /\ agent \in {"weather_agent", "holiday_agent", "city_info_agent"}
    /\ Finish([kind |-> "answer", from |-> agent], ModelSteps(agent))
    /\ UNCHANGED <<state, wiring, turns, request, target, tool, start>>

\* Final model call of the search stage: the list the tool returned goes to
\* scholarship_results.
SearchFinal ==
    /\ pc = "final"
    /\ agent = "scholarship_search_agent"
    /\ state' = [state EXCEPT ![K_RESULTS] =
                     ListV(tool.handed.items, turns, tool.handed.error)]
    /\ Finish([kind |-> "answer", from |-> agent],
              ModelSteps(agent)
                  \o <<Ev("write", K_RESULTS, turns), Ev("end", agent, 0)>>)
    /\ UNCHANGED <<wiring, turns, request, target, tool, start>>

\* Model call of the ranking stage: reads scholarship_results, writes the
\* top of it to ranked_scholarships.
RankFinal ==
    /\ pc = "final"
    /\ agent = "scholarship_ranking_agent"
    /\ LET input == Get(state, K_RESULTS, ListV(<<>>, 0, FALSE)) IN
       /\ \E reading \in Readings :
             state' = [state EXCEPT ![K_RANKED] =
                          ListV(RankTop(input.v, reading), turns, input.marker)]
       /\ Finish([kind |-> "answer", from |-> agent],
                 <<Ev("read", K_RESULTS, input.by)>>
                     \o ModelSteps(agent)
                     \o <<Ev("write", K_RANKED, turns), Ev("end", agent, 0)>>)
    /\ UNCHANGED <<wiring, turns, request, target, tool, start>>

\* Model call of the summary stage: reads ranked_scholarships, writes prose.
SummaryFinal ==
    /\ pc = "final"
    /\ agent = "scholarship_summary_agent"
    /\ LET input == Get(state, K_RANKED, ListV(<<>>, 0, FALSE)) IN
       Finish([kind |-> "summary", from |-> agent],
              <<Ev("read", K_RANKED, input.by)>>
                  \o ModelSteps(agent)
                  \o <<Ev("end", agent, 0)>>)
    /\ UNCHANGED <<state, wiring, turns, request, target, tool, start>>

\* The response goes back to the caller; what belonged to the turn is gone.
Return ==
    /\ pc = "done"
    /\ pc' = "idle"
    /\ agent' = "none"
    /\ stage' = 0
    /\ request' = {}
    /\ target' = "none"
    /\ tool' = NoTool
    /\ response' = NoResponse
    /\ trace' = <<>>
    /\ state' = EndOfInvocation(state)
    /\ UNCHANGED <<wiring, turns, start>>

Next ==
    \/ \E req \in Requests : Dispatch(req)
    \/ Entry
    \/ RootModel
    \/ ModelCall
    \/ ToolCall
    \/ HandlerFinal
    \/ SearchFinal
    \/ RankFinal
    \/ SummaryFinal
    \/ Return

Spec == Init /\ [][Next]_vars

(***************************************************************************)
(* Reading the trace of a turn                                             *)
(***************************************************************************)
IsStart(e) == e[1] = "start"
IsGenerate(e) == e[1] = "generate"
IsTool(e) == e[1] = "tool"

\* The agents started in this turn, in order.
Starts == [i \in DOMAIN SelectSeq(trace, IsStart) |-> SelectSeq(trace, IsStart)[i][2]]
Generations == SelectSeq(trace, IsGenerate)
ToolCalls == SelectSeq(trace, IsTool)

Happened(e) == \E i \in DOMAIN trace : trace[i] = e
Before(e, i) == \E j \in DOMAIN trace : j < i /\ trace[j] = e

IsPrefix(p, q) == Len(p) <= Len(q) /\ \A i \in DOMAIN p : p[i] = q[i]

\* The turn is past the entry callback.
PastEntry == pc \notin {"idle", "entry"}
\* The root model call of this turn has been made.
Classified == Happened(Ev("generate", "root_agent", 0))

Stages == << "scholarship_search_agent", "scholarship_ranking_agent",
             "scholarship_summary_agent" >>

(***************************************************************************)
(* Properties                                                              *)
(***************************************************************************)
\* C1: in a session created without a call counter, the counter equals the
\* number of turns dispatched, once the entry callback of the latest turn
\* has run, whatever the turn was routed to and also when it was skipped.
C1_CounterEqualsTurns ==
    start[K_COUNT].t = "absent" =>
        /\ pc # "entry" /\ turns = 0 => state[K_COUNT].t = "absent"
        /\ pc # "entry" /\ turns > 0 => state[K_COUNT] = IntV(turns)
        /\ pc = "entry" /\ turns > 1 => state[K_COUNT] = IntV(turns - 1)

C1_Witness ==
    /\ start[K_COUNT].t = "absent"
    /\ turns = 2
    /\ pc = "done"
    /\ response.kind = "skipped"
    /\ state[K_COUNT] = IntV(2)

\* C2: a turn dispatched while skip_processing is true returns the skipped
\* response (whenever the entry callback returns at all), and no model call,
\* no tool call, no handler and no pipeline stage runs in it.
C2_SkipShortCircuit ==
    PastEntry /\ Truthy(Get(state, K_SKIP, BoolV(FALSE))) =>
        /\ pc = "done"
        /\ start[K_COUNT].t = "absent" => response = [kind |-> "skipped", from |-> "root_agent"]
        /\ Generations = <<>>
        /\ ToolCalls = <<>>
        /\ Starts = <<>>
        /\ target = "none"
        /\ tool = NoTool

C2_Witness ==
    /\ pc = "done"
    /\ Truthy(Get(state, K_SKIP, BoolV(FALSE)))
    /\ request = {"weather"}
    /\ response.kind = "skipped"
    /\ trace = <<Ev("before_agent", "root_agent", 0)>>

SearchFailed == tool.by = "scholarship_search_agent" /\ tool.failed

C8_HookFailureFatal ==
    /\ PastEntry /\ start[K_COUNT].t = "str" =>
          /\ pc = "done"
          /\ response = [kind |-> "failure", from |-> "check_and_log_agent_entry"]
          /\ Generations = <<>>
          /\ ToolCalls = <<>>
          /\ Starts = <<>>
          /\ state = start
    /\ response.kind = "failure" => start[K_COUNT].t = "str"

C8_Witness ==
    /\ pc = "done"
    /\ request = {"scholarship"}
    /\ start[K_COUNT].t = "str"
    /\ response.kind = "failure"
    /\ trace = <<Ev("before_agent", "root_agent", 0)>>

\* A turn that was neither skipped nor failed has ended.
Answered == pc = "done" /\ response.kind \notin {"skipped", "failure"}

\* C9 as claimed: a request matching no rule gets the decline response, no
\* handler is started and the generation backend is not called.
C9_DeclineWithoutGeneration ==
    Answered /\ request = {} =>
        /\ response.kind = "decline"
        /\ Starts = <<>>
        /\ Generations = <<>>

\* C9, amended: a request matching no rule gets the decline response from
\* the root agent's own model call, which is the only generation call of
\* the turn; no handler or stage is started and no tool is called.
C9_DeclineByRootModel ==
    Answered /\ request = {} =>
        /\ response = [kind |-> "decline", from |-> "root_agent"]
        /\ target = "none"
        /\ Starts = <<>>
        /\ ToolCalls = <<>>
        /\ Generations = <<Ev("generate", "root_agent", 0)>>

C9_Witness ==
    /\ Answered
    /\ request = {}
    /\ response.kind = "decline"
    /\ Generations = <<Ev("generate", "root_agent", 0)>>

\* C10 as claimed: every tool call of a turn is followed at once by the
\* after-tool callback, which hands the result on unchanged.
C10_AfterToolAlways ==
    /\ \A i \in DOMAIN trace :
          trace[i][1] = "tool" =>
              /\ i < Len(trace)
              /\ trace[i + 1] = Ev("after_tool", trace[i][2], 0)
    /\ tool.name # "none" => tool.hooked /\ tool.handed = tool.result

\* C11 as claimed: every call of the generation backend in a turn, by the
\* root agent, a handler or a pipeline stage, comes right after the
\* before-model callback of the calling agent.
C11_BeforeModelAlways ==
    \A i \in DOMAIN trace :
        trace[i][1] = "generate" =>
            /\ i > 1
            /\ trace[i - 1] = Ev("before_model", trace[i][2], 0)

\* The ranking stage of this turn has written its list.
Ranked ==
    /\ state[K_RANKED].t = "list" /\ state[K_RANKED].by = turns
    /\ state[K_RESULTS].t = "list" /\ state[K_RESULTS].by = turns

Parsed(x) == NormalizedAmount(x.amount) # -1
Pos(x, items) == CHOOSE k \in DOMAIN items : items[k] = x

\* The list holds at most `n` entries, each an entry of `items`, none twice.
TakenFrom(list, items, n) ==
    /\ Len(list) <= n
    /\ \A i \in DOMAIN list : \E k \in DOMAIN items : items[k] = list[i]
    /\ \A i, j \in DOMAIN list : i # j => list[i] # list[j]

BoundaryStep ==
    pc \in {"done", "idle"} =>
        /\ state'[K_COUNT] = state[K_COUNT]
        /\ state'[K_RESULTS] = state[K_RESULTS]
        /\ state'[K_RANKED] = state[K_RANKED]
        /\ state'[K_SKIP] = state[K_SKIP]
        /\ pc' = "entry" => state'[K_AGENT].t = "absent"

HolidayLookup == tool.name = "get_public_holidays_tool" /\ tool.outcome # "standin"

SkipSet == Truthy(Get(state, K_SKIP, BoolV(FALSE)))

\* A step taken while skip_processing is true: the flag stays as it is; the
\* entry callback (counter absent at session start) adds 1 to the counter,
\* writes nothing but the counter and the current-agent key, and ends the
\* turn with the skipped response; nothing else of a turn runs.
StickyStep ==
    SkipSet =>
        /\ state'[K_SKIP] = state[K_SKIP]
        /\ pc' \in {"idle", "entry", "done"}
        /\ pc = "entry" /\ start[K_COUNT].t = "absent" =>
              /\ pc' = "done"
              /\ response' = [kind |-> "skipped", from |-> "root_agent"]
              /\ state'[K_COUNT] = IntV(Get(state, K_COUNT, IntV(0)).v + 1)
              /\ \A k \in Keys \ {K_COUNT, K_AGENT} : state'[k] = state[k]

\* C15: once skip_processing is true in a session it stays true, so every
\* later turn of the session is skipped as well, the call counter still
\* going up by 1 with each of them.
C15_SkipIsSticky == [][StickyStep]_vars

C15_Witness ==
    /\ SkipSet
    /\ turns = 2
    /\ pc = "done"
    /\ request = {"city"}
    /\ response = [kind |-> "skipped", from |-> "root_agent"]
    /\ state[K_COUNT] = IntV(2)
    /\ state[K_RESULTS].t = "absent"

====
